---- MODULE Spec2Model ----
(***************************************************************************)
(* Model of scripts/lighthouse-audit.js: argument parsing, validation, the *)
(* platform profile, output file naming and the sequential audit pipeline  *)
(* with its error paths.                                                   *)
(*                                                                         *)
(* JavaScript strings are modelled as sequences of one-character strings,  *)
(* so that startsWith, split, replace, slice and toLowerCase are computed  *)
(* character by character.                                                 *)
(***************************************************************************)
EXTENDS Integers, Sequences, FiniteSets, TLC

VARIABLES
  args,            \* process.argv.slice(2)
  pc,              \* position of runLighthouseAudit: the await it is suspended at
  url,             \* parseArgs().url
  platform,        \* parseArgs().platform
  chrome,          \* the browser handle: "undefined", "running" or "killed"
  platformConfig,  \* the audit profile spread into the lighthouse options
  viewportConfig,  \* the viewport handed to page.setViewport
  now,             \* the Date read by getTimestamp
  baseFilename,
  htmlFilePath,
  jpgFilePath,
  files,           \* files written to disk
  calls,           \* how often each external operation was started
  outcome,         \* how each external operation ended
  summaryPrinted,
  usagePrinted,
  rejected,        \* the unhandledRejection handler ran
  exitCode

vars == <<args, pc, url, platform, chrome, platformConfig, viewportConfig, now,
          baseFilename, htmlFilePath, jpgFilePath, files, calls, outcome,
          summaryPrinted, usagePrinted, rejected, exitCode>>

\* Longest argument list explored.
MaxArgs == 3

\* JavaScript null / undefined (no one-character string equals "null").
Null == <<"null">>

\* The process has not exited.
NoExit == -1

-----------------------------------------------------------------------------
(* Characters and string helpers *)

LowerLetters == {"a","b","c","d","e","f","g","h","i","j","k","l","m",
                 "n","o","p","q","r","s","t","u","v","w","x","y","z"}
UpperLetters == {"A","B","C","D","E","F","G","H","I","J","K","L","M",
                 "N","O","P","Q","R","S","T","U","V","W","X","Y","Z"}
Digits == {"0","1","2","3","4","5","6","7","8","9"}
Alnum == LowerLetters \cup UpperLetters \cup Digits

UpperToLower == [A |-> "a", B |-> "b", C |-> "c", D |-> "d", E |-> "e",
                 F |-> "f", G |-> "g", H |-> "h", I |-> "i", J |-> "j",
                 K |-> "k", L |-> "l", M |-> "m", N |-> "n", O |-> "o",
                 P |-> "p", Q |-> "q", R |-> "r", S |-> "s", T |-> "t",
                 U |-> "u", V |-> "v", W |-> "w", X |-> "x", Y |-> "y",
                 Z |-> "z"]

\* String.prototype.toLowerCase on ASCII text
RECURSIVE toLowerCase(_)
toLowerCase(s) ==
  IF s = <<>> THEN <<>>
  ELSE <<IF Head(s) \in UpperLetters THEN UpperToLower[Head(s)] ELSE Head(s)>>
       \o toLowerCase(Tail(s))

\* String.prototype.startsWith
startsWith(s, prefix) ==
  /\ Len(s) >= Len(prefix)
  /\ SubSeq(s, 1, Len(prefix)) = prefix

\* Index of the first character of s at or after position from that lies in
\* cs; Len(s) + 1 when there is none.
RECURSIVE indexOfAny(_, _, _)
indexOfAny(s, cs, from) ==
  IF from > Len(s) THEN Len(s) + 1
  ELSE IF s[from] \in cs THEN from
  ELSE indexOfAny(s, cs, from + 1)

\* s.split("=")[1]: the text between the first and the second "=";
\* undefined when s holds no "=".
splitEq1(s) ==
  LET i == indexOfAny(s, {"="}, 1)
      j == indexOfAny(s, {"="}, i + 1)
  IN  IF i > Len(s) THEN Null ELSE SubSeq(s, i + 1, j - 1)

\* JavaScript truthiness of a string-or-null value
Truthy(s) == s # Null /\ s # <<>>

-----------------------------------------------------------------------------
(* Command line *)

UrlFlag == <<"-", "-", "u", "r", "l">>
UrlEq == <<"-", "-", "u", "r", "l", "=">>
PlatformFlag == <<"-", "-", "p", "l", "a", "t", "f", "o", "r", "m">>
PlatformEq == <<"-", "-", "p", "l", "a", "t", "f", "o", "r", "m", "=">>
DashDash == <<"-", "-">>
Desktop == <<"d", "e", "s", "k", "t", "o", "p">>
Mobile == <<"m", "o", "b", "i", "l", "e">>

UrlStrings == { <<"h", "t", "t", "p", "s", ":", "/", "/", "a", ".", "b">>, <<"h", "t", "t", "p", "s", ":", "/", "/", "a", ".", "b", "/", "?", "q", "=", "c">>, <<"a", ".", "b">> }

PlatformStrings == { <<"M", "O", "B", "I", "L", "E">>, <<"d", "e", "s", "k", "t", "o", "p">>, <<"t", "a", "b", "l", "e", "t">>, <<"m", "o", "b", "i", "l", "e", "=", "x">> }

Tokens ==
  UrlStrings \cup PlatformStrings \cup {UrlFlag, PlatformFlag}
    \cup {UrlEq \o u : u \in UrlStrings}
    \cup {PlatformEq \o p : p \in PlatformStrings}

ArgLists == UNION {[1..n -> Tokens] : n \in 0..MaxArgs}

\* The for loop of parseArgs; i is the 1-based index of args[i] in the code.
RECURSIVE parseLoop(_, _, _, _)
parseLoop(a, i, u, p) ==
  IF i > Len(a) THEN [url |-> u, platform |-> p]
  ELSE IF startsWith(a[i], UrlEq) THEN parseLoop(a, i + 1, splitEq1(a[i]), p)
  ELSE IF a[i] = UrlFlag /\ i + 1 <= Len(a) THEN parseLoop(a, i + 1, a[i + 1], p)
  ELSE IF startsWith(a[i], PlatformEq)
       THEN parseLoop(a, i + 1, u, toLowerCase(splitEq1(a[i])))
  ELSE IF a[i] = PlatformFlag /\ i + 1 <= Len(a)
       THEN parseLoop(a, i + 1, u, toLowerCase(a[i + 1]))
  ELSE IF ~startsWith(a[i], DashDash) /\ ~Truthy(u) THEN parseLoop(a, i + 1, a[i], p)
  ELSE parseLoop(a, i + 1, u, p)

parseArgs(a) == parseLoop(a, 1, Null, Desktop)

isValidPlatform(p) == toLowerCase(p) \in {Desktop, Mobile}

-----------------------------------------------------------------------------
(* new URL(string): the scheme, authority and host steps of the URL parser  *)
(* for absolute URLs without credentials or IPv6 literals.                 *)

SpecialSchemes == { <<"h", "t", "t", "p">>, <<"h", "t", "t", "p", "s">>, <<"f", "t", "p">>, <<"w", "s">>, <<"w", "s", "s">> }
SchemeChars == Alnum \cup {"+", "-", "."}
ForbiddenHostChars == {" ", "#", "/", ":", "<", ">", "?", "@", "[", "\\", "]", "^", "|", "%"}

RECURSIVE skipSlashes(_, _)
skipSlashes(s, from) ==
  IF from <= Len(s) /\ s[from] \in {"/", "\\"} THEN skipSlashes(s, from + 1) ELSE from

parseURL(s) ==
  LET failure == [ok |-> FALSE, hostname |-> <<>>]
      colon == indexOfAny(s, {":"}, 1)
      scheme == toLowerCase(SubSeq(s, 1, colon - 1))
      special == scheme \in SpecialSchemes
      hasAuthority == special \/ startsWith(SubSeq(s, colon + 1, Len(s)), <<"/", "/">>)
      hostStart == IF special THEN skipSlashes(s, colon + 1) ELSE colon + 3
      hostEnd == indexOfAny(s, {"/", "\\", "?", "#"}, hostStart)
      authority == SubSeq(s, hostStart, hostEnd - 1)
      portColon == indexOfAny(authority, {":"}, 1)
      host == SubSeq(authority, 1, portColon - 1)
      port == SubSeq(authority, portColon + 1, Len(authority))
  IN  IF s = Null \/ s = <<>> THEN failure
      ELSE IF colon > Len(s) \/ colon = 1 THEN failure
      ELSE IF s[1] \notin (LowerLetters \cup UpperLetters) THEN failure
      ELSE IF \E k \in 2..(colon - 1) : s[k] \notin SchemeChars THEN failure
      ELSE IF ~hasAuthority THEN [ok |-> TRUE, hostname |-> <<>>]
      ELSE IF special /\ host = <<>> THEN failure
      ELSE IF \E k \in 1..Len(host) : host[k] \in ForbiddenHostChars THEN failure
      ELSE IF \E k \in 1..Len(port) : port[k] \notin Digits THEN failure
      ELSE [ok |-> TRUE, hostname |-> toLowerCase(host)]

isValidUrl(string) == parseURL(string).ok

hostname(u) == parseURL(u).hostname

-----------------------------------------------------------------------------
(* File naming *)


\* Date.prototype.toISOString
toISOString(sec, ms) == <<"2", "0", "2", "4", "-", "0", "1", "-", "1", "5", "T", "1", "0", ":", "3", "0", ":">> \o sec \o <<".">> \o ms \o <<"Z">>

Times == {toISOString(<<"4", "5">>, <<"1", "2", "3">>), toISOString(<<"4", "6">>, <<"0", "0", "0">>)}

\* s.replace(/[:.]/g, "-")
RECURSIVE replaceColonDot(_)
replaceColonDot(s) ==
  IF s = <<>> THEN <<>>
  ELSE <<IF Head(s) \in {":", "."} THEN "-" ELSE Head(s)>> \o replaceColonDot(Tail(s))

\* getTimestamp that cuts only the trailing "Z"
getTimestampKeepingMillis(iso) ==
  LET r == replaceColonDot(iso) IN SubSeq(r, 1, Len(r) - 1)

getTimestamp(iso) ==
  LET r == replaceColonDot(iso) IN SubSeq(r, 1, Len(r) - 5)

\* s.replace(/[^a-zA-Z0-9]/g, "-")
RECURSIVE replaceNonAlnum(_)
replaceNonAlnum(s) ==
  IF s = <<>> THEN <<>>
  ELSE <<IF Head(s) \in Alnum THEN Head(s) ELSE "-">> \o replaceNonAlnum(Tail(s))

FilePrefix == <<"l", "i", "g", "h", "t", "h", "o", "u", "s", "e", "-", "a", "c", "c", "e", "s", "s", "i", "b", "i", "l", "i", "t", "y", "-">>
HtmlExt == <<".", "h", "t", "m", "l">>
JpgExt == <<".", "j", "p", "g">>

makeBaseFilename(u, p, iso) ==
  FilePrefix \o replaceNonAlnum(hostname(u)) \o <<"-">> \o p \o <<"-">> \o getTimestamp(iso)

-----------------------------------------------------------------------------
(* Platform profile.  Throughputs are in tenths of Kbps (1638.4 Kbps is    *)
(* 16384).                                                                 *)

MobileConfig ==
  [formFactor |-> "mobile",
   screenEmulation |-> [mobile |-> TRUE, width |-> 375, height |-> 667,
                        deviceScaleFactor |-> 2, disabled |-> FALSE],
   throttling |-> [rttMs |-> 150, throughputKbps |-> 16384,
                   cpuSlowdownMultiplier |-> 4, requestLatencyMs |-> 150,
                   downloadThroughputKbps |-> 16384, uploadThroughputKbps |-> 6750]]

DesktopConfig ==
  [formFactor |-> "desktop",
   screenEmulation |-> [mobile |-> FALSE, width |-> 1350, height |-> 940,
                        deviceScaleFactor |-> 1, disabled |-> FALSE],
   throttling |-> [rttMs |-> 40, throughputKbps |-> 102400,
                   cpuSlowdownMultiplier |-> 1, requestLatencyMs |-> 0,
                   downloadThroughputKbps |-> 0, uploadThroughputKbps |-> 0]]

platformConfigFor(p) == IF p = Mobile THEN MobileConfig ELSE DesktopConfig

MobileViewport == [width |-> 375, height |-> 800, deviceScaleFactor |-> 2]
DesktopViewport == [width |-> 1200, height |-> 800, deviceScaleFactor |-> 1]

\* viewportConfigFor with the platform test lost
viewportConfigForAlwaysDesktop(p) == DesktopViewport

viewportConfigFor(p) == IF p = Mobile THEN MobileViewport ELSE DesktopViewport

NoConfig == [formFactor |-> "unset"]
NoViewport == [width |-> 0, height |-> 0, deviceScaleFactor |-> 0]

-----------------------------------------------------------------------------
(* The pipeline *)

Stages == {"launch", "audit", "writeHtml", "render", "summary", "kill"}

Init ==
  /\ args \in ArgLists
  /\ pc = "start"
  /\ url = Null
  /\ platform = Desktop
  /\ chrome = "undefined"
  /\ platformConfig = NoConfig
  /\ viewportConfig = NoViewport
  /\ now = Null
  /\ baseFilename = Null
  /\ htmlFilePath = Null
  /\ jpgFilePath = Null
  /\ files = {}
  /\ calls = [s \in Stages |-> 0]
  /\ outcome = [s \in Stages |-> "none"]
  /\ summaryPrinted = FALSE
  /\ usagePrinted = FALSE
  /\ rejected = FALSE
  /\ exitCode = NoExit

\* process.exit(code)
Exit(code) == pc' = "exited" /\ exitCode' = code

\* validate without the isValidUrl check
validateWithoutUrlCheck(u, p) ==
  IF ~Truthy(u) THEN "usage"
  ELSE IF ~isValidPlatform(p) THEN "invalidPlatform"
  ELSE "ok"

\* The checks of runLighthouseAudit before the try block
validate(u, p) ==
  IF ~Truthy(u) THEN "usage"
  ELSE IF ~isValidUrl(u) THEN "invalidUrl"
  ELSE IF ~isValidPlatform(p) THEN "invalidPlatform"
  ELSE "ok"

\* parseArgs, the validation, and the call of chromeLauncher.launch
Start ==
  /\ pc = "start"
  /\ LET parsed == parseArgs(args)
         verdict == validate(parsed.url, parsed.platform)
     IN  /\ url' = parsed.url
         /\ platform' = parsed.platform
         /\ usagePrinted' = (verdict = "usage")
         /\ IF verdict = "ok"
            THEN /\ pc' = "launch"
                 /\ calls' = [calls EXCEPT !["launch"] = @ + 1]
                 /\ UNCHANGED exitCode
            ELSE /\ Exit(1)
                 /\ UNCHANGED calls
  /\ UNCHANGED <<args, chrome, platformConfig, viewportConfig, now, baseFilename,
                 htmlFilePath, jpgFilePath, files, outcome, summaryPrinted, rejected>>

\* A catch block that logs the error and exits with code 0
CatchExitingZero == Exit(0) /\ UNCHANGED chrome

\* The catch block: process.exit(1) ends the process at once, so the finally
\* block that follows it is not run.
Catch == Exit(1) /\ UNCHANGED chrome

\* chromeLauncher.launch settles; on success the profile is built and
\* lighthouse is called.
LaunchReturns ==
  /\ pc = "launch"
  /\ \E ok \in BOOLEAN :
       IF ok
       THEN /\ chrome' = "running"
            /\ platformConfig' = platformConfigFor(platform)
            /\ outcome' = [outcome EXCEPT !["launch"] = "ok"]
            /\ calls' = [calls EXCEPT !["audit"] = @ + 1]
            /\ pc' = "audit"
            /\ UNCHANGED exitCode
       ELSE /\ outcome' = [outcome EXCEPT !["launch"] = "fail"]
            /\ Catch
            /\ UNCHANGED <<platformConfig, calls>>
  /\ UNCHANGED <<args, url, platform, viewportConfig, now, baseFilename,
                 htmlFilePath, jpgFilePath, files, summaryPrinted, usagePrinted,
                 rejected>>

\* AuditReturns without the check of the result: a missing result is
\* treated like a report.
AuditReturnsWithoutResultCheck ==
  /\ pc = "audit"
  /\ \E r \in {"ok", "null", "throw"}, t \in Times :
       IF r \in {"ok", "null"}
       THEN /\ outcome' = [outcome EXCEPT !["audit"] = r]
            /\ now' = t
            /\ baseFilename' = makeBaseFilename(url, platform, t)
            /\ htmlFilePath' = baseFilename' \o HtmlExt
            /\ calls' = [calls EXCEPT !["writeHtml"] = @ + 1]
            /\ pc' = "writeHtml"
            /\ UNCHANGED <<exitCode, chrome>>
       ELSE /\ outcome' = [outcome EXCEPT !["audit"] = r]
            /\ Exit(1)
            /\ UNCHANGED <<chrome, now, baseFilename, htmlFilePath, calls>>
  /\ UNCHANGED <<args, url, platform, platformConfig, viewportConfig,
                 jpgFilePath, files, summaryPrinted, usagePrinted, rejected>>

\* lighthouse settles: with a result, with no result, or by throwing; a
\* result names the files and starts fs.writeFile.
AuditReturns ==
  /\ pc = "audit"
  /\ \E r \in {"ok", "null", "throw"}, t \in Times :
       IF r = "ok"
       THEN /\ outcome' = [outcome EXCEPT !["audit"] = "ok"]
            /\ now' = t
            /\ baseFilename' = makeBaseFilename(url, platform, t)
            /\ htmlFilePath' = baseFilename' \o HtmlExt
            /\ calls' = [calls EXCEPT !["writeHtml"] = @ + 1]
            /\ pc' = "writeHtml"
            /\ UNCHANGED <<exitCode, chrome>>
       ELSE /\ outcome' = [outcome EXCEPT !["audit"] = r]
            /\ Catch
            /\ UNCHANGED <<now, baseFilename, htmlFilePath, calls>>
  /\ UNCHANGED <<args, url, platform, platformConfig, viewportConfig,
                 jpgFilePath, files, summaryPrinted, usagePrinted, rejected>>

\* WriteHtmlReturns with the write's failure swallowed: the render starts
\* whether or not the HTML file was written.
WriteHtmlReturnsIgnoringFailure ==
  /\ pc = "writeHtml"
  /\ \E ok \in BOOLEAN :
       /\ outcome' = [outcome EXCEPT !["writeHtml"] = IF ok THEN "ok" ELSE "fail"]
       /\ files' = IF ok THEN files \cup {htmlFilePath} ELSE files
       /\ jpgFilePath' = baseFilename \o JpgExt
       /\ viewportConfig' = viewportConfigFor(platform)
       /\ calls' = [calls EXCEPT !["render"] = @ + 1]
       /\ pc' = "render"
       /\ UNCHANGED <<exitCode, chrome>>
  /\ UNCHANGED <<args, url, platform, platformConfig, now, baseFilename,
                 htmlFilePath, summaryPrinted, usagePrinted, rejected>>

\* fs.writeFile settles; on success the viewport is chosen and
\* nodeHtmlToImage is called.
WriteHtmlReturns ==
  /\ pc = "writeHtml"
  /\ \E ok \in BOOLEAN :
       IF ok
       THEN /\ outcome' = [outcome EXCEPT !["writeHtml"] = "ok"]
            /\ files' = files \cup {htmlFilePath}
            /\ jpgFilePath' = baseFilename \o JpgExt
            /\ viewportConfig' = viewportConfigFor(platform)
            /\ calls' = [calls EXCEPT !["render"] = @ + 1]
            /\ pc' = "render"
            /\ UNCHANGED <<exitCode, chrome>>
       ELSE /\ outcome' = [outcome EXCEPT !["writeHtml"] = "fail"]
            /\ Catch
            /\ UNCHANGED <<files, jpgFilePath, viewportConfig, calls>>
  /\ UNCHANGED <<args, url, platform, platformConfig, now, baseFilename,
                 htmlFilePath, summaryPrinted, usagePrinted, rejected>>

\* nodeHtmlToImage settles; on success the summary is printed (reading the
\* result's lhr may throw) and the finally block calls chrome.kill.
RenderReturns ==
  /\ pc = "render"
  /\ \E ok \in BOOLEAN, lhrOk \in BOOLEAN :
       IF ok
       THEN /\ files' = files \cup {jpgFilePath}
            /\ IF lhrOk
               THEN /\ outcome' = [outcome EXCEPT !["render"] = "ok", !["summary"] = "ok"]
                    /\ summaryPrinted' = TRUE
                    /\ calls' = [calls EXCEPT !["summary"] = @ + 1, !["kill"] = @ + 1]
                    /\ pc' = "kill"
                    /\ UNCHANGED <<exitCode, chrome>>
               ELSE /\ outcome' = [outcome EXCEPT !["render"] = "ok", !["summary"] = "fail"]
                    /\ calls' = [calls EXCEPT !["summary"] = @ + 1]
                    /\ Catch
                    /\ UNCHANGED summaryPrinted
       ELSE /\ outcome' = [outcome EXCEPT !["render"] = "fail"]
            /\ Catch
            /\ UNCHANGED <<files, summaryPrinted, calls>>
  /\ UNCHANGED <<args, url, platform, platformConfig, viewportConfig, now,
                 baseFilename, htmlFilePath, jpgFilePath, usagePrinted, rejected>>

\* process.on("unhandledRejection"): log and process.exit(1)
onUnhandledRejection == rejected' = TRUE /\ Exit(1)

\* chrome.kill settles; runLighthouseAudit then returns and the process ends
\* with code 0, or its promise rejects with nobody awaiting it.
KillReturns ==
  /\ pc = "kill"
  /\ \E ok \in BOOLEAN :
       IF ok
       THEN /\ outcome' = [outcome EXCEPT !["kill"] = "ok"]
            /\ chrome' = "killed"
            /\ Exit(0)
            /\ UNCHANGED rejected
       ELSE /\ outcome' = [outcome EXCEPT !["kill"] = "fail"]
            /\ onUnhandledRejection
            /\ UNCHANGED chrome
  /\ UNCHANGED <<args, url, platform, platformConfig, viewportConfig, now,
                 baseFilename, htmlFilePath, jpgFilePath, files, calls,
                 summaryPrinted, usagePrinted>>

\* A promise nobody awaits rejects while the run is suspended at an await.
UnhandledRejection ==
  /\ pc \in {"launch", "audit", "writeHtml", "render", "kill"}
  /\ onUnhandledRejection
  /\ UNCHANGED <<args, url, platform, chrome, platformConfig, viewportConfig, now,
                 baseFilename, htmlFilePath, jpgFilePath, files, calls, outcome,
                 summaryPrinted, usagePrinted>>

Next ==
  \/ Start
  \/ LaunchReturns
  \/ AuditReturns
  \/ WriteHtmlReturns
  \/ RenderReturns
  \/ KillReturns
  \/ UnhandledRejection

Spec == Init /\ [][Next]_vars

-----------------------------------------------------------------------------
(* Properties *)

\* C1: once chromeLauncher.launch has returned a browser handle, chrome.kill
\* is invoked before the process ends, on every exit path.
C1_BrowserKilledOnEveryExit ==
  (pc = "exited" /\ outcome["launch"] = "ok") => calls["kill"] >= 1

\* C2: when the parsed URL is absent or fails URL parsing, the program exits
\* with code 1 before chromeLauncher.launch is called and writes no file.
C2_InvalidUrlExitsBeforeLaunch ==
  (pc # "start" /\ (~Truthy(url) \/ ~isValidUrl(url)))
    => /\ pc = "exited"
       /\ exitCode = 1
       /\ calls["launch"] = 0
       /\ chrome = "undefined"
       /\ files = {}

C2_Witness ==
  /\ pc = "exited"
  /\ Truthy(url)
  /\ ~isValidUrl(url)
  /\ exitCode = 1
  /\ calls["launch"] = 0

\* C3: every platform string given with --platform=<value> or
\* --platform <value>, next to a valid URL, that is not case-insensitively
\* equal to desktop or mobile makes the program exit with code 1 without
\* launching the browser.
C3_InvalidPlatformExits ==
  \A u \in UrlStrings, p \in PlatformStrings :
    ( /\ isValidUrl(u)
      /\ toLowerCase(p) \notin {Desktop, Mobile}
      /\ pc # "start"
      /\ args \in {<<u, PlatformEq \o p>>, <<PlatformEq \o p, u>>, <<u, PlatformFlag, p>>} )
    => (pc = "exited" /\ exitCode = 1 /\ calls["launch"] = 0)

\* C4: the argument lists [u], ["--url=" + u] and ["--url", u] all parse to
\* the url u.
C4_UrlFormsEquivalent ==
  \A u \in UrlStrings :
    (pc # "start" /\ args \in {<<u>>, <<UrlEq \o u>>, <<UrlFlag, u>>}) => url = u

\* C5: "--platform <value>" before or after a positional valid URL u parses
\* to url = u and platform = lowercase(value); the value is never taken as
\* the URL.
C5_PlatformSpaceForm ==
  \A u \in UrlStrings, p \in PlatformStrings :
    ( /\ isValidUrl(u)
      /\ pc # "start"
      /\ args \in {<<u, PlatformFlag, p>>, <<PlatformFlag, p, u>>} )
    => (url = u /\ platform = toLowerCase(p))

\* No argument is a platform flag.
NoPlatformFlagGiven ==
  \A i \in 1..Len(args) : ~startsWith(args[i], PlatformFlag)

\* The only platform flag is --platform=<mobile in some letter casing>.
MobileFlagGiven ==
  \E i \in 1..Len(args) :
    /\ startsWith(args[i], PlatformEq)
    /\ toLowerCase(SubSeq(args[i], Len(PlatformEq) + 1, Len(args[i]))) = Mobile
    /\ \A j \in (1..Len(args)) \ {i} : ~startsWith(args[j], PlatformFlag)

IsDesktopProfile(c) ==
  /\ c.formFactor = "desktop"
  /\ c.screenEmulation.width = 1350
  /\ c.screenEmulation.height = 940
  /\ c.screenEmulation.deviceScaleFactor = 1
  /\ c.screenEmulation.mobile = FALSE
  /\ c.throttling.cpuSlowdownMultiplier = 1

IsMobileProfile(c) ==
  /\ c.formFactor = "mobile"
  /\ c.screenEmulation.width = 375
  /\ c.screenEmulation.height = 667
  /\ c.screenEmulation.deviceScaleFactor = 2
  /\ c.screenEmulation.mobile = TRUE
  /\ c.throttling.cpuSlowdownMultiplier = 4
  /\ c.throttling.throughputKbps = 16384

IsDesktopViewport(v) == v.width = 1200 /\ v.height = 800 /\ v.deviceScaleFactor = 1

IsMobileViewport(v) == v.width = 375 /\ v.height = 800 /\ v.deviceScaleFactor = 2

C7_JpegAfterHtml ==
  /\ calls["render"] >= 1 => (outcome["writeHtml"] = "ok" /\ htmlFilePath \in files)
  /\ outcome["writeHtml"] = "fail" => (calls["render"] = 0 /\ files = {})
  /\ outcome["render"] = "fail" =>
       (htmlFilePath \in files /\ jpgFilePath \notin files /\ exitCode = 1)
  /\ \A f \in files : f # htmlFilePath => htmlFilePath \in files

C7_Witness ==
  /\ outcome["render"] = "fail"
  /\ pc = "exited"
  /\ htmlFilePath \in files
  /\ exitCode = 1

\* C8: the exit code is 0 exactly when validation and every stage succeed,
\* and 1 otherwise; no stage is started twice.
C8_ExitCode ==
  /\ pc = "exited" =>
       /\ exitCode \in {0, 1}
       /\ exitCode = 0 <=>
            /\ Truthy(url) /\ isValidUrl(url) /\ isValidPlatform(platform)
            /\ \A s \in Stages : outcome[s] = "ok"
            /\ ~rejected
  /\ pc # "exited" => exitCode = NoExit
  /\ \A s \in Stages : calls[s] <= 1

C8_Witness ==
  /\ pc = "exited"
  /\ exitCode = 0
  /\ \A s \in Stages : outcome[s] = "ok"

\* C9: both outputs are named
\* lighthouse-accessibility-{domain}-{platform}-{timestamp} plus .html or
\* .jpg, from one base name; domain is the hostname with every character
\* outside [A-Za-z0-9] replaced by "-", platform is desktop or mobile, and
\* timestamp is the time read once, cut to the second.
C9_FileNames ==
  baseFilename # Null =>
    LET h == hostname(url)
        dStart == Len(FilePrefix)
        pStart == dStart + Len(h) + 1
        tStart == pStart + Len(platform) + 1
    IN  /\ startsWith(baseFilename, FilePrefix)
        /\ Len(baseFilename) = tStart + 19
        /\ \A i \in 1..Len(h) :
             /\ baseFilename[dStart + i] = (IF h[i] \in Alnum THEN h[i] ELSE "-")
             /\ baseFilename[dStart + i] \in Alnum \cup {"-"}
        /\ baseFilename[pStart] = "-"
        /\ SubSeq(baseFilename, pStart + 1, tStart - 1) = platform
        /\ platform \in {Desktop, Mobile}
        /\ baseFilename[tStart] = "-"
        /\ \A i \in 1..19 :
             baseFilename[tStart + i] = (IF now[i] \in {":", "."} THEN "-" ELSE now[i])
        /\ htmlFilePath = baseFilename \o HtmlExt
        /\ jpgFilePath # Null => jpgFilePath = baseFilename \o JpgExt
        /\ files \subseteq {baseFilename \o HtmlExt, baseFilename \o JpgExt}

C9_Witness ==
  /\ Cardinality(files) = 2
  /\ htmlFilePath \in files
  /\ jpgFilePath \in files
  /\ hostname(url) = <<"a", ".", "b">>
  /\ platform = Mobile

\* C10: when the audit returns no result or throws, no file is written, no
\* summary is printed and the process exits with code 1.
C10_AuditFailureIsFatal ==
  outcome["audit"] \in {"null", "throw"} =>
    /\ files = {}
    /\ ~summaryPrinted
    /\ calls["writeHtml"] = 0
    /\ calls["render"] = 0
    /\ pc = "exited"
    /\ exitCode = 1

C10_Witness ==
  /\ outcome["audit"] = "null"
  /\ pc = "exited"
  /\ exitCode = 1

====
